---- MODULE Spec2Model ----
(***************************************************************************)
(* Catalyst Career AI backend: the chat pipeline.                          *)
(*                                                                         *)
(*   app/api/chat.py              get_chat_service, health_check, chat,    *)
(*                                comprehensive_chat                       *)
(*   app/services/chat_service.py ChatService                              *)
(*   app/services/crew_service.py CrewService                              *)
(*   app/services/rag_service.py  RAGService                               *)
(*                                                                         *)
(* Text is modelled as a sequence of one-character strings, so that        *)
(* str.lower(), str.strip() and the `in` substring test are computed       *)
(* character by character.  Python dicts are records; a key the code does  *)
(* not set is absent from the record's DOMAIN and dict.get is Get.         *)
(***************************************************************************)
EXTENDS Integers, Sequences, FiniteSets, TLC

VARIABLES
    chat_service,   \* chat.py:13   the global instance, None or a ChatService
    init_lock,      \* chat.py:14   _init_lock: None, or Some(p) while p holds it
    pc,             \* per request: its position in get_chat_service / chat
    message,        \* per request: ChatMessage.message
    service,        \* per request: the local `service` of the endpoint
    result,         \* per request: what process_message returned (a dict)
    reply,          \* per request: the HTTP reply of the endpoint
    probe,          \* per request: what the backends did during the call
    constructions,  \* number of ChatService() constructions so far
    index_builds,   \* number of RAGService() constructions (index set-ups)
    kind,           \* per request: the endpoint it calls
    steps,          \* per request: the pipeline steps its handler ran
    knowledge,      \* the add_knowledge calls made, the files they wrote and
                    \* the files whose chunks they added to the index
    added,          \* per request: the dict add_knowledge returned, if called
    initialized_by, \* the kind of the request that ran ChatService()
    query,          \* input of the pure-function specification
    agent_name,     \* determine_agent(query)[1], once computed
    advice,         \* get_career_advice(query, ...), once computed
    store,          \* retriever specification: RAGService.vector_store
    store_api,      \* retriever specification: the search API the store has
    found,          \* retriever specification: one search_with_scores call
    environment,    \* index specification: what RAGService() will meet
    documents_dir,  \* index specification: DOCUMENTS_PATH, file -> read outcome
    loaded,         \* index specification: load_documents_from_directory's result
    built,          \* index specification: the services once constructed
    chunk_env,      \* configuration specification: CHUNK_SIZE, CHUNK_OVERLAP given
    app_settings,   \* configuration specification: config.settings once made
    split_attempt   \* configuration specification: a splitter made and used

orchVars == <<chat_service, init_lock, pc, message, service, result, reply,
              probe, constructions, index_builds, kind, steps,
              initialized_by, knowledge, added>>
pureVars == <<query, agent_name, advice>>
ragVars == <<store, store_api, found, environment, documents_dir,
             loaded, built>>
vars == <<chat_service, init_lock, pc, message, service, result, reply,
          probe, constructions, index_builds, kind, steps, initialized_by,
          knowledge, added,
          query, agent_name, advice, store, store_api, found,
          environment, documents_dir, loaded, built,
          chunk_env, app_settings, split_attempt>>
cfgVars == <<chunk_env, app_settings, split_attempt>>

(***************************************************************************)
(* Bounds of the model.                                                    *)
(***************************************************************************)
\* Number of requests in flight at once.
NumRequests == 2
\* Longest query of the pure-function specification, in vocabulary words.
MaxWords == 2

(***************************************************************************)
(* Python values.                                                          *)
(***************************************************************************)
\* None is the empty tuple and a present value x is <<x>>, so `if x:` on an
\* object reference is x # None.
None == <<>>
Some(x) == <<x>>

\* dict.get(key, default)
Get(d, key, default) == IF key \in DOMAIN d THEN d[key] ELSE default

Min(a, b) == IF a <= b THEN a ELSE b

(***************************************************************************)
(* Text.                                                                   *)
(***************************************************************************)
UpperCase ==
    <<"A","B","C","D","E","F","G","H","I","J","K","L","M","N","O","P","Q","R","S","T","U","V","W","X","Y","Z">>
LowerCase ==
    <<"a","b","c","d","e","f","g","h","i","j","k","l","m","n","o","p","q","r","s","t","u","v","w","x","y","z">>

\* str.lower() on one character
LowerChar(c) ==
    IF \E j \in DOMAIN UpperCase : UpperCase[j] = c
    THEN LowerCase[CHOOSE j \in DOMAIN UpperCase : UpperCase[j] = c]
    ELSE c

\* str.lower()
RECURSIVE Lower(_)
Lower(s) ==
    IF s = <<>> THEN <<>> ELSE <<LowerChar(Head(s))>> \o Lower(Tail(s))

\* keyword in text
Contains(text, keyword) ==
    \E i \in 1..(Len(text) - Len(keyword) + 1) :
        SubSeq(text, i, i + Len(keyword) - 1) = keyword

\* any(keyword in text for keyword in keywords)
ContainsAny(text, keywords) ==
    \E j \in DOMAIN keywords : Contains(text, keywords[j])

\* sum(1 for keyword in keywords if keyword in text)
CountMatches(text, keywords) ==
    Cardinality({j \in DOMAIN keywords : Contains(text, keywords[j])})

WhiteSpace == {" ", "\t", "\n"}

\* A blank test that does not strip: `not message.message` alone.
IsBlank_unstripped(s) == s = <<>>

\* not message.message or not message.message.strip()
IsBlank(s) == \A i \in DOMAIN s : s[i] \in WhiteSpace

(***************************************************************************)
(* The texts the model runs on                                             *)
(***************************************************************************)
\* Messages of the chat requests: a blank one, one with a keyword of two
\* personas, one with no keyword.
BlankMessage ==
    <<" "," ">>
ResumeInterviewMessage ==
    <<"R","e","s","u","m","e"," ","i","n","t","e","r","v","i","e","w">>
HelloMessage ==
    <<"h","e","l","l","o">>
RequestQueries == {BlankMessage, ResumeInterviewMessage, HelloMessage}

Vocabulary ==
    << <<"R","e","s","u","m","e">>,
       <<"C","V">>,
       <<"A","T","S">>,
       <<"i","n","t","e","r","v","i","e","w">>,
       <<"P","r","e","p","a","r","a","t","i","o","n">>,
       <<"s","k","i","l","l","s">>,
       <<"s","a","l","a","r","y">>,
       <<"n","e","g","o","t","i","a","t","i","o","n">>,
       <<"n","e","t","w","o","r","k","i","n","g">>,
       <<"p","r","o","f","e","s","s","i","o","n","a","l"," ","n","e","t","w","o","r","k","i","n","g">>,
       <<"a","p","p","l","i","c","a","t","i","o","n">>,
       <<"w","e","a","t","h","e","r">> >>

OptimizeQuery ==
    <<"H","o","w"," ","d","o"," ","I"," ","o","p","t","i","m","i","z","e"," ","m","y"," ","r","e","s","u","m","e"," ","a","n","d"," ","c","o","v","e","r"," ","l","e","t","t","e","r"," ","f","o","r"," ","A","T","S","?">>
WeatherQuery ==
    <<"W","h","a","t","'","s"," ","t","h","e"," ","w","e","a","t","h","e","r"," ","t","o","d","a","y","?">>

\* The words joined by single spaces.
RECURSIVE Join(_)
Join(words) ==
    IF words = <<>> THEN <<>>
    ELSE IF Len(words) = 1 THEN Vocabulary[words[1]]
    ELSE Vocabulary[words[1]] \o <<" ">> \o Join(Tail(words))

\* Every query of at most MaxWords vocabulary words, and two whole sentences.
Queries ==
    { Join(w) : w \in UNION {[1..n -> DOMAIN Vocabulary] : n \in 0..MaxWords} }
    \cup {OptimizeQuery, WeatherQuery}

\* Every text a request or a query can hold.
Texts == RequestQueries \cup Queries

(***************************************************************************)
(* CrewService.determine_agent                                             *)
(***************************************************************************)
resume_keywords ==
    << <<"r","e","s","u","m","e">>,
       <<"c","v">>,
       <<"a","p","p","l","i","c","a","t","i","o","n">>,
       <<"a","t","s">>,
       <<"o","p","t","i","m","i","z","e">>,
       <<"f","o","r","m","a","t">>,
       <<"c","o","v","e","r"," ","l","e","t","t","e","r">> >>

interview_keywords ==
    << <<"i","n","t","e","r","v","i","e","w">>,
       <<"p","r","e","p","a","r","a","t","i","o","n">>,
       <<"q","u","e","s","t","i","o","n","s">>,
       <<"b","e","h","a","v","i","o","r","a","l">>,
       <<"p","r","a","c","t","i","c","e">>,
       <<"m","o","c","k">> >>

skill_keywords ==
    << <<"s","k","i","l","l","s">>,
       <<"l","e","a","r","n","i","n","g">>,
       <<"c","o","u","r","s","e">>,
       <<"c","e","r","t","i","f","i","c","a","t","i","o","n">>,
       <<"t","r","a","i","n","i","n","g">>,
       <<"d","e","v","e","l","o","p","m","e","n","t">> >>

market_keywords ==
    << <<"s","a","l","a","r","y">>,
       <<"m","a","r","k","e","t">>,
       <<"t","r","e","n","d","s">>,
       <<"i","n","d","u","s","t","r","y">>,
       <<"c","o","m","p","e","n","s","a","t","i","o","n">>,
       <<"c","a","r","e","e","r"," ","p","a","t","h">> >>

networking_keywords ==
    << <<"n","e","t","w","o","r","k","i","n","g">>,
       <<"c","o","n","n","e","c","t","i","o","n","s">>,
       <<"l","i","n","k","e","d","i","n">>,
       <<"e","v","e","n","t","s">>,
       <<"p","r","o","f","e","s","s","i","o","n","a","l"," ","n","e","t","w","o","r","k">> >>

\* The keys of the `scores` dict, in insertion order (max() keeps the first
\* of several maximal items).
AgentOrder ==
    << "Resume Expert", "Interview Coach", "Skill Advisor", "Career Analyst",
       "Networking Specialist" >>

\* The values of the `scores` dict, in the same order.
AgentScores(user_query) ==
    LET query_lower == Lower(user_query)
    IN  << CountMatches(query_lower, resume_keywords),
           CountMatches(query_lower, interview_keywords),
           CountMatches(query_lower, skill_keywords),
           CountMatches(query_lower, market_keywords),
           CountMatches(query_lower, networking_keywords) >>

\* max(scores.values())
MaxValue(scores) ==
    CHOOSE m \in {scores[i] : i \in DOMAIN scores} :
        \A i \in DOMAIN scores : scores[i] <= m

\* max(scores.items(), key=lambda x: x[1])[0]: the first item with the
\* greatest value.
FirstMaxAgent(scores) ==
    LET m == MaxValue(scores)
        i == CHOOSE k \in DOMAIN scores :
                 /\ scores[k] = m
                 /\ \A j \in 1..(k - 1) : scores[j] < m
    IN  AgentOrder[i]

\* A router that takes the first persona with any match instead of the one
\* with the most matches.
determine_agent_first_hit(user_query) ==
    LET scores == AgentScores(user_query)
    IN  IF MaxValue(scores) = 0
        THEN "Career Analyst"
        ELSE AgentOrder[CHOOSE k \in DOMAIN scores :
                 /\ scores[k] > 0
                 /\ \A j \in 1..(k - 1) : scores[j] = 0]

\* A router without the zero-match default.
determine_agent_no_default(user_query) ==
    FirstMaxAgent(AgentScores(user_query))

\* determine_agent returns (agent, name); the agent object is
\* agent_mapping[name], so the name stands for both.
determine_agent(user_query) ==
    LET scores == AgentScores(user_query)
        best_agent_name == FirstMaxAgent(scores)
    IN  IF MaxValue(scores) = 0 THEN "Career Analyst" ELSE best_agent_name

\* determine_agent is a pure function of the text: its value for every text
\* of the model, computed once.
AgentNameOf == [t \in Texts |-> determine_agent(t)]

(***************************************************************************)
(* CrewService._generate_fallback_response and get_career_advice           *)
(***************************************************************************)
fallback_resume_keywords ==
    << <<"r","e","s","u","m","e">>,
       <<"c","v">>,
       <<"a","p","p","l","i","c","a","t","i","o","n">> >>

fallback_interview_keywords ==
    << <<"i","n","t","e","r","v","i","e","w">>,
       <<"p","r","e","p","a","r","a","t","i","o","n">> >>

fallback_salary_keywords ==
    << <<"s","a","l","a","r","y">>,
       <<"n","e","g","o","t","i","a","t","i","o","n">> >>

\* The four canned blocks, named by their first line.
ResumeTips == "I understand you're asking about resume/CV optimization."
InterviewTips == "I see you're asking about interview preparation."
NegotiationTips == "For salary negotiation, consider these fundamentals:"
CapabilityList == "I'm here to help with your career questions!"

\* A fallback that tests the interview rule before the resume rule.
generate_fallback_response_reordered(user_query) ==
    LET query_lower == Lower(user_query)
    IN  IF ContainsAny(query_lower, fallback_interview_keywords)
        THEN InterviewTips
        ELSE IF ContainsAny(query_lower, fallback_resume_keywords)
        THEN ResumeTips
        ELSE IF ContainsAny(query_lower, fallback_salary_keywords)
        THEN NegotiationTips
        ELSE CapabilityList

generate_fallback_response(user_query) ==
    LET query_lower == Lower(user_query)
    IN  IF ContainsAny(query_lower, fallback_resume_keywords)
        THEN ResumeTips
        ELSE IF ContainsAny(query_lower, fallback_interview_keywords)
        THEN InterviewTips
        ELSE IF ContainsAny(query_lower, fallback_salary_keywords)
        THEN NegotiationTips
        ELSE CapabilityList

\* _generate_fallback_response is a pure function of the text: its value for
\* every text of the model, computed once.
FallbackResponseOf == [t \in Texts |-> generate_fallback_response(t)]

\* What crew.kickoff() can do: return text, return an empty text, or raise.
GenOutcomes == {"text", "empty", "raise"}

\* The text of a generation that returned.
LlmText == "generated advice"
response_text(gen) == IF gen = "empty" THEN "" ELSE LlmText

\* A get_career_advice whose fallback answer keeps the persona selected for
\* the query.
get_career_advice_fallback_as_persona(user_query, rag_context, searched, gen) ==
    [ response   |-> IF gen = "raise" THEN FallbackResponseOf[user_query]
                     ELSE response_text(gen),
      agent_used |-> AgentNameOf[user_query],
      status     |-> IF gen = "raise" THEN "fallback" ELSE "success",
      context_used |->
          (IF rag_context = None THEN searched ELSE rag_context[1]) # <<>> ]

\* get_career_advice(user_query, rag_context): rag_context is None or
\* Some(list); `searched` is what search_with_scores returns (<<>> when it
\* raises) should rag_context be None; gen is the outcome of crew.kickoff().
get_career_advice(user_query, rag_context, searched, gen) ==
    LET context == IF rag_context = None THEN searched ELSE rag_context[1]
    IN  IF gen = "raise"
        THEN [ response   |-> FallbackResponseOf[user_query],
               agent_used |-> "System Fallback",
               status     |-> "fallback",
               error      |-> "exception" ]
        ELSE [ response     |-> response_text(gen),
               agent_used   |-> AgentNameOf[user_query],
               status       |-> "success",
               context_used |-> context # <<>> ]

\* A get_career_advice that calls crew.kickoff() again after a failure.
get_career_advice_retrying(gen) ==
    IF gen = "raise"
    THEN <<"determine_agent", "kickoff", "kickoff">>
    ELSE <<"determine_agent", "kickoff">>

\* The pipeline steps get_career_advice runs when it is given rag_context:
\* determine_agent (line 175) and crew.kickoff() (line 210), once each and
\* whatever kickoff does.
get_career_advice_steps(gen) ==
    <<"determine_agent", "kickoff">>

(***************************************************************************)
(* RAGService                                                              *)
(***************************************************************************)
\* chat_service.py:80  search_with_scores(message, k=4, score_threshold=0.6);
\* scores are in tenths.
SearchK == 4
ScoreThreshold == 6

\* Chunks of an index loaded from disk or built from the documents.
DocChunks == 3

\* Relevance scores the index can report for a query: one below and one at
\* the threshold.
Scores == {ScoreThreshold - 1, ScoreThreshold}

\* A file of the documents directory is [name |-> n, ext |-> e]; the keys of
\* sample_docs are the names 1..SampleCount, in the order of the dict.
SampleCount == 4
SampleFiles == {[name |-> n, ext |-> "txt"] : n \in 1..SampleCount}

\* The directory maps each file it holds to what reading it does: "ok" when
\* TextLoader loads it, "manual" when TextLoader raises and open/read
\* returns, "unreadable" when both raise.
ReadOutcomes == {"ok", "manual", "unreadable"}
EmptyDirectory == <<>>

\* The files other than the samples that a directory can hold: text files
\* and one file that is not a text file.
MaxUserFiles == 2

\* config.py: the defaults of CHUNK_SIZE and CHUNK_OVERLAP, in hundreds of
\* characters, and the largest value the environment gives either of them.
DefaultChunkSize == 8
DefaultChunkOverlap == 1
MaxChunkSize == 8
UserFiles == {[name |-> SampleCount + n, ext |-> "txt"] : n \in 1..MaxUserFiles}
OtherFile == [name |-> 0, ext |-> "md"]
FirstSample == [name |-> 1, ext |-> "txt"]

\* The directories RAGService() can find: any of the user files and a file
\* that has the name of the first sample, each with any read outcome, and
\* the other file.
Directories ==
    UNION { [files -> ReadOutcomes] :
              files \in SUBSET (UserFiles \cup {FirstSample}) }
    \cup UNION { { d @@ (OtherFile :> "ok") : d \in [files -> ReadOutcomes] } :
                  files \in SUBSET (UserFiles \cup {FirstSample}) }

\* A knowledge base of DocChunks short text files.
KnowledgeBase ==
    [f \in {[name |-> SampleCount + n, ext |-> "txt"] : n \in 1..DocChunks}
        |-> "ok"]

\* The sample files open(filepath, 'w') can write: all, none, all but the
\* first.
Writables == {SampleFiles, {}, SampleFiles \ {FirstSample}}

Document(file) == [source |-> file]

\* glob.glob(os.path.join(directory_path, "*.txt"))
txt_files(directory) == {f \in DOMAIN directory : f.ext = "txt"}

\* The loop of load_documents_from_directory over the files still to read.
RECURSIVE LoadFiles(_, _)
LoadFiles(directory, files) ==
    IF files = {} THEN {}
    ELSE LET file_path == CHOOSE f \in files : TRUE
             rest == LoadFiles(directory, files \ {file_path})
         IN  IF directory[file_path] = "ok"
             THEN {Document(file_path)} \cup rest
             ELSE IF directory[file_path] = "manual"
             THEN {Document(file_path)} \cup rest
             ELSE rest

\* A loop that stops at the first file neither way of reading can load.
RECURSIVE LoadFilesAborting(_, _)
LoadFilesAborting(directory, files) ==
    IF files = {} THEN {}
    ELSE LET file_path == CHOOSE f \in files : TRUE
         IN  IF directory[file_path] \in {"ok", "manual"}
             THEN {Document(file_path)}
                  \cup LoadFilesAborting(directory, files \ {file_path})
             ELSE {}

\* A loader that gives up the directory at the first unreadable file.
load_documents_from_directory_aborting(directory) ==
    LoadFilesAborting(directory, txt_files(directory))

\* RAGService.load_documents_from_directory(directory_path): the documents
\* it returns.
load_documents_from_directory(directory) ==
    LoadFiles(directory, txt_files(directory))

\* A create_sample_data that is never called: the directory stays as it is.
create_sample_data_skipped(directory, writable) == directory

\* RAGService.create_sample_data(): the directory after it; a sample that
\* cannot be written is logged and left as it was.
create_sample_data(directory, writable) ==
    [f \in DOMAIN directory \cup (SampleFiles \cap writable) |->
        IF f \in SampleFiles \cap writable THEN "ok" ELSE directory[f]]

\* load_documents, lines 117-126: the directory after the two places that
\* seed it, `not os.listdir(...)` and `not documents`.
seeded_directory(env) ==
    LET listed ==
            IF DOMAIN env.directory = {}
            THEN create_sample_data(env.directory, env.writable)
            ELSE env.directory
    IN  IF load_documents_from_directory(listed) = {}
        THEN create_sample_data(listed, env.writable)
        ELSE listed

\* load_documents, lines 122-126: the documents handed to the splitter.
loaded_documents(env) ==
    load_documents_from_directory(seeded_directory(env))

\* text_splitter.split_documents(documents) with CHUNK_SIZE 800: the number
\* of chunks; a sample document (882 to 1239 characters) gives two, a
\* user's file is taken to give one.
RECURSIVE split_documents(_)
split_documents(documents) ==
    IF documents = {} THEN 0
    ELSE LET doc == CHOOSE d \in documents : TRUE
         IN  (IF doc.source \in SampleFiles THEN 2 ELSE 1)
             + split_documents(documents \ {doc})

\* initialize_vector_store, lines 41-47: the index on disk is there and
\* Chroma loads it.
LoadsFromDisk(env) == env.db_present /\ env.db_load_ok

\* A call the constructors do not reach is written as one that returns,
\* and a directory they do not read as the first of `directories`.
Reached(env, directories) ==
    /\ env.emb_primary_ok => env.emb_fallback_ok
    /\ (~env.emb_primary_ok /\ ~env.emb_fallback_ok) =>
           /\ env.db_present /\ env.db_load_ok /\ env.crew_ok
    /\ ~env.db_present => env.db_load_ok
    /\ LoadsFromDisk(env) =>
           /\ env.directory = (CHOOSE d \in directories : TRUE)
           /\ env.writable = SampleFiles
           /\ env.build_ok /\ env.placeholder_ok
    /\ (~LoadsFromDisk(env) /\ loaded_documents(env) = {}) => env.build_ok
    /\ (~LoadsFromDisk(env) /\ loaded_documents(env) # {} /\ env.build_ok)
           => env.placeholder_ok

\* What the environment does while the services are constructed.
Envs(directories) ==
    { env \in
        [ emb_primary_ok  : BOOLEAN,   \* GoogleGenerativeAIEmbeddings(EMBEDDING_MODEL)
          emb_fallback_ok : BOOLEAN,   \* GoogleGenerativeAIEmbeddings("models/embedding-001")
          db_present      : BOOLEAN,   \* CHROMA_DB_PATH exists and is not empty
          db_load_ok      : BOOLEAN,   \* Chroma(persist_directory=...) returns
          directory       : directories,  \* DOCUMENTS_PATH
          writable        : Writables, \* open(filepath, 'w') and write return
          build_ok        : BOOLEAN,   \* Chroma.from_documents(splits) returns
          placeholder_ok  : BOOLEAN,   \* Chroma.from_documents([sample_doc]) returns
          crew_ok         : BOOLEAN ]  \* LLM(...) and the five Agent(...) return
        : Reached(env, directories) }

\* The orchestrator's specification starts from the knowledge base.
InitEnvs == Envs({KnowledgeBase})

VectorStore(n) == Some([chunks |-> n])

\* create_empty_vector_store: vector_store keeps its value (None) on failure.
create_empty_vector_store(env) ==
    IF env.placeholder_ok THEN VectorStore(1) ELSE None

\* load_documents: the vector_store it leaves behind.
load_documents(env) ==
    LET documents == loaded_documents(env)
    IN  IF documents # {} /\ env.build_ok
        THEN VectorStore(split_documents(documents))
        ELSE create_empty_vector_store(env)

\* initialize_vector_store: the vector_store it leaves behind.
initialize_vector_store(env) ==
    IF LoadsFromDisk(env)
    THEN VectorStore(DocChunks)
    ELSE load_documents(env)

\* RAGService(): raises when neither embedding client can be made.
RAGService_raises(env) == ~env.emb_primary_ok /\ ~env.emb_fallback_ok
RAGService_init(env) == [vector_store |-> initialize_vector_store(env)]

\* The n best chunks with their relevance scores, best first; a chunk is
\* named by its rank.
RankedResults(n) ==
    { [i \in 1..n |-> [doc |-> i, score |-> f[i]]] :
        f \in {g \in [1..n -> Scores] :
                 \A i \in 1..n : \A j \in 1..n : i < j => g[i] >= g[j]} }

\* What the index does for one query: the scored search returns ranked
\* results or raises, and after a raise the plain search returns or raises.
SearchOutcomes(vector_store) ==
    IF vector_store = None
    THEN {[scored |-> "unused", results |-> <<>>, plain |-> "unused"]}
    ELSE LET n == Min(SearchK, vector_store[1].chunks)
         IN  {[scored |-> "ok", results |-> r, plain |-> "unused"] :
                 r \in RankedResults(n)}
             \cup {[scored |-> "raise", results |-> <<>>, plain |-> o] :
                 o \in {"ok", "raise"}}

\* [doc.page_content for doc, _ in results]
Contents(results) == [i \in DOMAIN results |-> results[i].doc]

\* RAGService.search(query, k)
search(vector_store, k, outcome) ==
    IF vector_store = None THEN <<>>
    ELSE IF outcome.plain = "raise" THEN <<>>
    ELSE [i \in 1..Min(k, vector_store[1].chunks) |-> i]

\* The store's API, as hasattr sees it: langchain's Chroma has
\* similarity_search_with_relevance_scores.
StoreApi == "relevance"

\* sorted(results, key=lambda x: x[1]): ascending and stable
SortedByScore(results) ==
    LET before(i) ==
            Cardinality({j \in DOMAIN results :
                \/ results[j].score < results[i].score
                \/ results[j].score = results[i].score /\ j < i})
    IN  [pos \in DOMAIN results |->
            results[CHOOSE i \in DOMAIN results : before(i) = pos - 1]]

\* A search_with_scores whose fallback keeps one result instead of two.
search_with_scores_top_one(vector_store, api, k, score_threshold, outcome) ==
    IF vector_store = None THEN <<>>
    ELSE IF outcome.scored = "raise" THEN search(vector_store, k, outcome)
    ELSE IF api = "relevance"
    THEN LET results == outcome.results
             filtered_results ==
                 Contents(SelectSeq(results,
                     LAMBDA r : r.score >= score_threshold))
         IN  IF filtered_results # <<>>
             THEN filtered_results
             ELSE Contents(SubSeq(results, 1, Min(1, Len(results))))
    ELSE IF api = "distance"
    THEN LET results_sorted == SortedByScore(outcome.results)
         IN  Contents(SubSeq(results_sorted, 1, Min(k, Len(results_sorted))))
    ELSE search(vector_store, k, outcome)

\* RAGService.search_with_scores(query, k, score_threshold)
search_with_scores(vector_store, api, k, score_threshold, outcome) ==
    IF vector_store = None THEN <<>>
    ELSE IF outcome.scored = "raise" THEN search(vector_store, k, outcome)
    ELSE IF api = "relevance"
    THEN LET results == outcome.results
             filtered_results ==
                 Contents(SelectSeq(results,
                     LAMBDA r : r.score >= score_threshold))
         IN  IF filtered_results # <<>>
             THEN filtered_results
             ELSE Contents(SubSeq(results, 1, Min(2, Len(results))))
    ELSE IF api = "distance"
    THEN LET results_sorted == SortedByScore(outcome.results)
         IN  Contents(SubSeq(results_sorted, 1, Min(k, Len(results_sorted))))
    ELSE search(vector_store, k, outcome)

\* The index searches search makes.
search_steps(vector_store) ==
    IF vector_store = None THEN <<>> ELSE <<"similarity_search">>

\* The index searches search_with_scores makes, in order.
search_with_scores_steps(vector_store, api, outcome) ==
    IF vector_store = None THEN <<>>
    ELSE IF api = "relevance"
    THEN <<"similarity_search_with_relevance_scores">>
         \o (IF outcome.scored = "raise" THEN search_steps(vector_store)
             ELSE <<>>)
    ELSE IF api = "distance"
    THEN <<"similarity_search_with_score">>
         \o (IF outcome.scored = "raise" THEN search_steps(vector_store)
             ELSE <<>>)
    ELSE search_steps(vector_store)

\* The branches of search_with_scores, as the two hasattr tests choose them:
\* the store has similarity_search_with_relevance_scores, or only
\* similarity_search_with_score, or neither.
StoreApis == {"relevance", "distance", "plain"}

\* The largest index of the retriever specification, one chunk more than a
\* search asks for.
MaxStoreChunks == 5

\* Relevance scores around the threshold, in tenths.
RetrieverScores == {ScoreThreshold - 1, ScoreThreshold, ScoreThreshold + 1}

\* What a scored search of n chunks returns, best first: relevances in
\* descending order, or the distances 1.0 - relevance in ascending order.
ScoredResults(api, n) ==
    LET ranked ==
            { [i \in 1..n |-> [doc |-> i, score |-> f[i]]] :
                f \in {g \in [1..n -> RetrieverScores] :
                    \A i \in 1..n : \A j \in 1..n : i < j => g[i] >= g[j]} }
    IN  IF api = "distance"
        THEN { [i \in 1..n |-> [doc |-> i, score |-> 10 - r[i].score]] :
                 r \in ranked }
        ELSE ranked

\* What the index does for one query, by the API it has.
StoreOutcomes(vector_store, api) ==
    IF vector_store = None
    THEN {[scored |-> "unused", results |-> <<>>, plain |-> "unused"]}
    ELSE IF api = "plain"
    THEN {[scored |-> "unused", results |-> <<>>, plain |-> o] :
             o \in {"ok", "raise"}}
    ELSE LET n == Min(SearchK, vector_store[1].chunks)
         IN  {[scored |-> "ok", results |-> r, plain |-> "unused"] :
                 r \in ScoredResults(api, n)}
             \cup {[scored |-> "raise", results |-> <<>>, plain |-> o] :
                 o \in {"ok", "raise"}}

\* The outcomes of the two calls of add_document that can fail outside the
\* program: open(filepath, 'w') with the write, and
\* vector_store.add_documents, which embeds the chunks.
AddOutcomes == [write : {"ok", "raise"}, embed : {"ok", "raise"}]
NotAdded == [write |-> "unused", embed |-> "unused"]

\* vector_store.add_documents(splits)
add_documents(vector_store, splits) ==
    VectorStore(vector_store[1].chunks + splits)

\* RAGService.add_document(content, filename): whether it raised, whether
\* it wrote the file, the chunks it added to the index and the calls it
\* made, in the order of the code: the file is written first, then the
\* document is split, then the chunks are added if there is an index.
add_document(self, filename, outcome) ==
    IF outcome.write = "raise"
    THEN [ raised |-> TRUE, wrote |-> FALSE, chunks |-> 0,
           steps |-> <<"open">> ]
    ELSE IF self.vector_store = None
    THEN [ raised |-> TRUE, wrote |-> TRUE, chunks |-> 0,
           steps |-> <<"open", "split_documents">> ]
    ELSE IF outcome.embed = "raise"
    THEN [ raised |-> TRUE, wrote |-> TRUE, chunks |-> 0,
           steps |-> <<"open", "split_documents", "add_documents">> ]
    ELSE [ raised |-> FALSE, wrote |-> TRUE,
           chunks |-> split_documents({Document(filename)}),
           steps |-> <<"open", "split_documents", "add_documents">> ]

\* RAGService.get_document_count(): the collection's count, and 0 when
\* there is no index or the count raises.
get_document_count(self, count_ok) ==
    IF self.vector_store = None THEN 0
    ELSE IF count_ok THEN self.vector_store[1].chunks
    ELSE 0

(***************************************************************************)
(* ChatService                                                             *)
(***************************************************************************)
\* A ChatService() that counts as initialized when only the generator's
\* constructor failed, and then answers without it.
ChatService_init_without_crew(env, id) ==
    IF RAGService_raises(env)
    THEN [ id |-> id, initialized |-> FALSE,
           rag_service |-> None, crew_service |-> None ]
    ELSE LET rag == RAGService_init(env)
         IN  [ id |-> id, initialized |-> TRUE,
               rag_service  |-> Some(rag),
               crew_service |-> IF env.crew_ok
                                THEN Some([rag_service |-> rag])
                                ELSE None ]

\* ChatService(): both constructors in one try block, whose `except` marks
\* the instance not initialized and clears both services.
ChatService_init(env, id) ==
    IF RAGService_raises(env) \/ ~env.crew_ok
    THEN [ id |-> id, initialized |-> FALSE,
           rag_service |-> None, crew_service |-> None ]
    ELSE LET rag == RAGService_init(env)
         IN  [ id |-> id, initialized |-> TRUE,
               rag_service  |-> Some(rag),
               \* CrewService(rag_service=rag): `rag_service or RAGService()`
               \* keeps the instance it is given
               crew_service |-> Some([rag_service |-> rag]) ]

\* Does ChatService() reach RAGService.initialize_vector_store?
BuildsIndex(env) == ~RAGService_raises(env)

TechnicalDifficulties ==
    "I'm sorry, but I'm experiencing technical difficulties. Please try again later."
TechnicalDifficultiesNow ==
    "I'm experiencing some technical difficulties right now."
NoProperResponse ==
    "I apologize, but I couldn't generate a proper response."

\* ChatService._error_response
error_response(error_msg) ==
    [ response   |-> TechnicalDifficultiesNow,
      agent_used |-> "Error Handler",
      status     |-> "error",
      sources    |-> <<>>,
      error      |-> error_msg ]

BasicResumeTips == "Here are some key resume tips:"
BasicInterviewTips == "For interview success:"
BasicNegotiationTips == "For salary negotiation:"
BasicCapabilityList == "I'm here to help with your career questions! I can assist with:"

\* ChatService._fallback_response
fallback_response(message_text) ==
    LET query_lower == Lower(message_text)
        response ==
            IF ContainsAny(query_lower, SubSeq(fallback_resume_keywords, 1, 2))
            THEN BasicResumeTips
            ELSE IF ContainsAny(query_lower, fallback_interview_keywords)
            THEN BasicInterviewTips
            ELSE IF ContainsAny(query_lower, fallback_salary_keywords)
            THEN BasicNegotiationTips
            ELSE BasicCapabilityList
    IN  [ response   |-> response,
          agent_used |-> "Fallback Assistant",
          status     |-> "fallback" ]

\* A provenance note that is written whether or not there is context.
Sources_unconditional(rag_context) ==
    << [note |-> "Knowledge base", documents |-> Len(rag_context)] >>

\* The `sources` list of process_message.
Sources(rag_context) ==
    IF rag_context # <<>>
    THEN << [note |-> "Knowledge base", documents |-> Len(rag_context)] >>
    ELSE <<>>

\* The body of process_message's try block.
process_body(self, message_text, outcome, gen) ==
    LET rag_context ==
            IF self.rag_service # None
            THEN search_with_scores(self.rag_service[1].vector_store,
                                    StoreApi, SearchK, ScoreThreshold, outcome)
            ELSE <<>>
        res ==
            IF self.crew_service # None
            THEN get_career_advice(message_text, Some(rag_context), <<>>, gen)
            ELSE fallback_response(message_text)
    IN  [ response     |-> Get(res, "response", NoProperResponse),
          agent_used   |-> Get(res, "agent_used", "Unknown"),
          status       |-> Get(res, "status", "success"),
          sources      |-> Sources(rag_context),
          context_used |-> Get(res, "context_used", rag_context # <<>>) ]

\* process_message without its `if not self.initialized` guard.
process_message_unguarded(self, message_text, outcome, gen, fault) ==
    IF fault THEN error_response("exception")
    ELSE process_body(self, message_text, outcome, gen)

\* ChatService.process_message(message, user_id); fault says that an
\* exception escapes the body of the try block.
process_message(self, message_text, outcome, gen, fault) ==
    IF ~self.initialized
    THEN [ response   |-> TechnicalDifficulties,
           agent_used |-> "System Error",
           status     |-> "error",
           sources    |-> <<>> ]
    ELSE IF fault THEN error_response("exception")
    ELSE process_body(self, message_text, outcome, gen)

FailedToInitialize == "Chat service failed to initialize"

\* The pipeline steps process_message runs, in order: the index searches of
\* search_with_scores, then determine_agent and crew.kickoff().
process_message_steps(self, outcome, gen, fault) ==
    IF ~self.initialized THEN <<>>
    ELSE IF fault THEN <<>>
    ELSE (IF self.rag_service # None
          THEN search_with_scores_steps(self.rag_service[1].vector_store,
                                        StoreApi, outcome)
          ELSE <<>>)
         \o (IF self.crew_service # None
             THEN get_career_advice_steps(gen)
             ELSE <<>>)

\* A comprehensive analysis that answers under a team persona of its own.
get_multi_agent_response_as_team(self, message_text, outcome, gen, fault) ==
    [agent_used |-> "Multi-Agent Team", collaboration |-> TRUE]
        @@ process_message(self, message_text, outcome, gen, fault)

\* ChatService.get_multi_agent_response(message, user_id).  process_message
\* returns a dict in every case, so the `except` of line 127, which would
\* call it a second time, is not taken.
get_multi_agent_response(self, message_text, outcome, gen, fault) ==
    IF ~self.initialized \/ self.crew_service = None
    THEN process_message(self, message_text, outcome, gen, fault)
    ELSE [collaboration |-> FALSE]
             @@ process_message(self, message_text, outcome, gen, fault)

\* The pipeline steps get_multi_agent_response runs: on either path those
\* of one process_message call.
get_multi_agent_response_steps(self, outcome, gen, fault) ==
    process_message_steps(self, outcome, gen, fault)

\* A health_check that does not look at the index.
health_check_without_index(self) ==
    IF ~self.initialized
    THEN [status |-> "unhealthy", message |-> FailedToInitialize]
    ELSE LET crew_status ==
                 IF self.crew_service # None THEN "healthy" ELSE "unhealthy"
         IN  [ status   |-> IF crew_status = "healthy"
                            THEN "healthy" ELSE "degraded",
               message  |-> <<"RAG: ", "healthy", ", CrewAI: ", crew_status>>,
               services |-> [ rag_service  |-> "healthy",
                              crew_service |-> crew_status ] ]

\* ChatService.health_check()
health_check(self) ==
    IF ~self.initialized
    THEN [status |-> "unhealthy", message |-> FailedToInitialize]
    ELSE LET rag_status ==
                 IF self.rag_service # None
                    /\ self.rag_service[1].vector_store # None
                 THEN "healthy" ELSE "unhealthy"
             crew_status ==
                 IF self.crew_service # None THEN "healthy" ELSE "unhealthy"
             overall_status ==
                 IF rag_status = "healthy" /\ crew_status = "healthy"
                 THEN "healthy" ELSE "degraded"
         IN  [ status   |-> overall_status,
               message  |-> <<"RAG: ", rag_status, ", CrewAI: ", crew_status>>,
               services |-> [ rag_service  |-> rag_status,
                              crew_service |-> crew_status ] ]

\* A health_check that probes the generation backend.
health_check_probing(self) ==
    IF self.crew_service # None THEN <<"kickoff">> ELSE <<>>

\* The pipeline steps health_check runs: none, it reads three attributes.
health_check_steps(self) ==
    <<>>

KnowledgeUnavailable == "Knowledge service is not available"
FailedToAdd == "Failed to add document: "
SuccessfullyAdded(filename) ==
    <<"Successfully added ", filename, " to the knowledge base">>

\* An add_knowledge that saves the upload before it looks at the service.
add_knowledge_saving_first(self, filename, outcome) ==
    [ result |-> [status |-> "error", message |-> KnowledgeUnavailable],
      wrote  |-> TRUE,
      chunks |-> 0,
      steps  |-> <<"open">> ]

\* ChatService.add_knowledge(content, filename): the dict it returns, and
\* what add_document did, if it was called.
add_knowledge(self, filename, outcome) ==
    IF ~self.initialized \/ self.rag_service = None
    THEN [ result |-> [status |-> "error", message |-> KnowledgeUnavailable],
           wrote  |-> FALSE,
           chunks |-> 0,
           steps  |-> <<>> ]
    ELSE LET done == add_document(self.rag_service[1], filename, outcome)
         IN  [ result |-> IF done.raised
                          THEN [status |-> "error", message |-> FailedToAdd]
                          ELSE [status |-> "success",
                                message |-> SuccessfullyAdded(filename)],
               wrote  |-> done.wrote,
               chunks |-> done.chunks,
               steps  |-> done.steps ]

\* The orchestrator once add_documents has added chunks to the index; the
\* crew service holds the same RAGService instance.
Indexed(self, chunks) ==
    IF chunks = 0 THEN self
    ELSE LET rag == [vector_store |->
                        add_documents(self.rag_service[1].vector_store,
                                      chunks)]
         IN  [self EXCEPT !.rag_service = Some(rag),
                          !.crew_service = Some([rag_service |-> rag])]

\* ChatService.get_conversation_starters()
ServiceStarters ==
    << "How do I transition to a new career field?",
       "Help me optimize my resume for tech jobs",
       "What should I expect in a behavioral interview?",
       "How do I negotiate salary effectively?",
       "What skills should I develop to advance my career?",
       "How do I build a professional network?",
       "What are the current trends in my industry?",
       "How do I prepare for a leadership role?",
       "What certifications would boost my career?",
       "How do I handle a career gap in my resume?" >>
get_conversation_starters(self) == ServiceStarters

\* CrewService.get_system_status()
crew_get_system_status(self, count_ok) ==
    [ status |-> "active",
      agents |-> [ career_analyst |-> "Available",
                   resume_expert |-> "Available",
                   interview_coach |-> "Available",
                   skill_advisor |-> "Available",
                   networking_specialist |-> "Available" ],
      rag_service |-> [ status |-> "active",
                        document_count |->
                            get_document_count(self.rag_service, count_ok) ],
      capabilities |-> << "Career guidance and planning",
                          "Resume and CV optimization",
                          "Interview preparation",
                          "Skill development planning",
                          "Professional networking advice",
                          "Salary negotiation strategies",
                          "Career transition support" >> ]

\* ChatService.get_system_status()
get_system_status(self, count_ok) ==
    IF ~self.initialized
    THEN [ status |-> "error", message |-> "System not initialized",
           services |-> <<>>, capabilities |-> <<>> ]
    ELSE IF self.crew_service # None
    THEN crew_get_system_status(self.crew_service[1], count_ok)
    ELSE [ status |-> "degraded", message |-> "CrewAI service unavailable",
           services |-> [rag_service |-> IF self.rag_service # None
                                         THEN "active" ELSE "inactive"],
           capabilities |-> <<"Basic chat responses">> ]

(***************************************************************************)
(* app/api/chat.py                                                         *)
(***************************************************************************)
CouldNotProcess == "I apologize, but I couldn't process your request."

\* ChatResponse(response=result.get(...), ...)
ChatResponse(res) ==
    [ response     |-> Get(res, "response", CouldNotProcess),
      sources      |-> Get(res, "sources", <<>>),
      agent_used   |-> Get(res, "agent_used", "null"),
      status       |-> Get(res, "status", "success"),
      context_used |-> Get(res, "context_used", FALSE) ]

\* The backends are not called.
Unused == [outcome |-> [scored |-> "unused", results |-> <<>>, plain |-> "unused"],
           gen |-> "unused", fault |-> FALSE]

\* What the backends can do during one chat request: the index's answer,
\* the generation's outcome, and whether an exception escapes the try body
\* of process_message.
BackendInputs(svc, message_text) ==
    IF svc = None \/ IsBlank(message_text) THEN {Unused}
    ELSE IF ~svc[1].initialized THEN {Unused}
    ELSE { [outcome |-> o, gen |-> g, fault |-> FALSE] :
             o \in SearchOutcomes(svc[1].rag_service[1].vector_store),
             g \in GenOutcomes }
         \cup {[Unused EXCEPT !.fault = TRUE]}

\* chat(message), after `service = await get_chat_service()`: the dict
\* process_message returned, if it was called, and the HTTP reply.
chat(svc, message_text, in) ==
    IF svc = None
    THEN [result |-> None, reply |-> [code |-> 503], steps |-> <<>>]
    ELSE IF IsBlank(message_text)
    THEN [result |-> None, reply |-> [code |-> 400], steps |-> <<>>]
    ELSE LET res == process_message(svc[1], message_text, in.outcome,
                                    in.gen, in.fault)
         IN  [ result |-> Some(res),
               reply  |-> [code |-> 200, body |-> ChatResponse(res)],
               steps  |-> process_message_steps(svc[1], in.outcome,
                                                in.gen, in.fault) ]

UnableToProcess == "Unable to process comprehensive analysis."

\* comprehensive_chat(message), after `service = await get_chat_service()`
comprehensive_chat(svc, message_text, in) ==
    IF svc = None
    THEN [result |-> None, reply |-> [code |-> 503], steps |-> <<>>]
    ELSE IF IsBlank(message_text)
    THEN [result |-> None, reply |-> [code |-> 400], steps |-> <<>>]
    ELSE LET res == get_multi_agent_response(svc[1], message_text,
                                             in.outcome, in.gen, in.fault)
         IN  [ result |-> Some(res),
               reply  |-> [ code |-> 200,
                            body |-> [ ChatResponse(res) EXCEPT !.response =
                                         Get(res, "response", UnableToProcess) ] ],
               steps  |-> get_multi_agent_response_steps(svc[1], in.outcome,
                                                         in.gen, in.fault) ]

\* health_check(), after `service = await get_chat_service()`
health_check_endpoint(svc) ==
    IF svc = None \/ ~svc[1].initialized
    THEN [status |-> "unhealthy", message |-> FailedToInitialize]
    ELSE LET health_status == health_check(svc[1])
         IN  IF "services" \in DOMAIN health_status
             THEN health_status
             ELSE [ status  |-> health_status.status,
                    message |-> health_status.message ]

\* upload_document: allowed_extensions and the only one it reads.
dot_txt == <<".", "t", "x", "t">>
allowed_extensions ==
    { dot_txt, <<".", "p", "d", "f">>, <<".", "d", "o", "c", "x">> }

\* The file name of an upload is [name |-> n, ext |-> e], e being what
\* follows the last dot; the upload has no file name, or one, and its bytes
\* decode as UTF-8 or do not.
UploadExts ==
    { <<"t", "x", "t">>, <<"T", "X", "T">>, <<"p", "d", "f">>,
      <<"e", "x", "e">> }
UploadNames ==
    {[name |-> SampleCount + MaxUserFiles + 1, ext |-> e] : e \in UploadExts}
Uploads ==
    [filename : {None} \cup {Some(f) : f \in UploadNames},
     decodes : BOOLEAN]

\* '.' + file.filename.split('.')[-1].lower()
file_extension(filename) == <<".">> \o Lower(filename.ext)

NotUploaded == [added |-> None, wrote |-> FALSE, chunks |-> 0, steps |-> <<>>]

\* upload_document(file), after `service = await get_chat_service()`: the
\* HTTP reply, the dict add_knowledge returned, if it was called, and what
\* add_document did.
upload_document(svc, file, outcome) ==
    IF svc = None
    THEN [reply |-> [code |-> 503]] @@ NotUploaded
    ELSE IF file.filename = None
    THEN [reply |-> [code |-> 400]] @@ NotUploaded
    ELSE IF file_extension(file.filename[1]) \notin allowed_extensions
    THEN [reply |-> [code |-> 400]] @@ NotUploaded
    ELSE IF file_extension(file.filename[1]) # dot_txt
    THEN [reply |-> [code |-> 400]] @@ NotUploaded
    ELSE IF ~file.decodes
    THEN [reply |-> [code |-> 500]] @@ NotUploaded
    ELSE LET res == add_knowledge(svc[1], file.filename[1], outcome)
         IN  [ reply  |-> IF res.result.status = "success"
                          THEN [ code |-> 200,
                                 body |-> [ message  |-> res.result.message,
                                            filename |-> file.filename[1] ] ]
                          ELSE [ code |-> 500,
                                 detail |-> res.result.message ],
               added  |-> Some(res.result),
               wrote  |-> res.wrote,
               chunks |-> res.chunks,
               steps  |-> res.steps ]

\* Does upload_document reach add_document with this service and file?
ReachesAddDocument(svc, file) ==
    /\ svc # None
    /\ svc[1].initialized
    /\ file.filename # None
    /\ file_extension(file.filename[1]) = dot_txt
    /\ file.decodes

\* What the file system and the embedding backend can do during one upload.
UploadOutcomes(svc, file) ==
    IF ReachesAddDocument(svc, file) THEN AddOutcomes ELSE {NotAdded}

\* get_conversation_starters(), lines 205-213: the starters returned when
\* there is no service.
StaticStarters ==
    << "How do I transition to a new career?",
       "Help me improve my resume",
       "Prepare me for an upcoming interview",
       "What skills should I develop?",
       "How do I negotiate salary?" >>

\* get_conversation_starters(), after `service = chat_service`
get_conversation_starters_endpoint(svc) ==
    IF svc = None
    THEN [starters |-> StaticStarters]
    ELSE [starters |-> get_conversation_starters(svc[1])]

\* get_system_status(), after `service = chat_service`
get_system_status_endpoint(svc, count_ok) ==
    IF svc = None
    THEN [status |-> "unavailable", message |-> "Chat service not initialized"]
    ELSE get_system_status(svc[1], count_ok)

\* An API whose every endpoint starts with `await get_chat_service()`.
awaits_get_chat_service_always(k) == TRUE

\* Does the endpoint start with `service = await get_chat_service()`?  The
\* conversation-starters and system-status endpoints read the global
\* instead.
awaits_get_chat_service(k) ==
    k \in {"chat", "comprehensive", "health", "upload"}

(***************************************************************************)
(* The requests                                                            *)
(***************************************************************************)
Requests == 1..NumRequests

\* get_chat_service, line 19: `if chat_service is None`
FirstCheck(cs) == cs = None

\* A get_chat_service whose second check is missing.
SecondCheckMissing(cs) == TRUE

\* get_chat_service, line 21: `if chat_service is None` under the lock
SecondCheck(cs) == cs = None

\* No add_knowledge call has been made.
NoKnowledge == [calls |-> 0, written |-> {}, indexed |-> {}]

\* A lock that its holder keeps when it leaves the block.
init_lock_kept(lock) == lock

\* get_chat_service, line 20: leaving `async with _init_lock` releases it.
init_lock_released(lock) == None

\* The orchestrator's variables outside the orchestrator's specification.
OrchIdle ==
    /\ chat_service = None
    /\ init_lock = None
    /\ pc = [p \in Requests |-> "check"]
    /\ message = [p \in Requests |-> BlankMessage]
    /\ service = [p \in Requests |-> None]
    /\ result = [p \in Requests |-> None]
    /\ reply = [p \in Requests |-> None]
    /\ probe = [p \in Requests |-> None]
    /\ constructions = 0
    /\ index_builds = 0
    /\ kind = [p \in Requests |-> "chat"]
    /\ steps = [p \in Requests |-> <<>>]
    /\ initialized_by = None
    /\ knowledge = NoKnowledge
    /\ added = [p \in Requests |-> None]

\* The pure-function specification's variables outside that specification.
PureIdle ==
    /\ query = <<>>
    /\ agent_name = "none"
    /\ advice = None

\* The retriever specification's variables outside that specification.
RetrieverIdle ==
    /\ store = None
    /\ store_api = StoreApi
    /\ found = None

\* The index specification's variables outside that specification.
IndexIdle ==
    /\ environment = None
    /\ documents_dir = EmptyDirectory
    /\ loaded = None
    /\ built = None

RagIdle == RetrieverIdle /\ IndexIdle

\* The configuration specification's variables outside that specification:
\* the defaults of config.py, in hundreds of characters.
CfgIdle ==
    /\ chunk_env = [CHUNK_SIZE |-> DefaultChunkSize,
                    CHUNK_OVERLAP |-> DefaultChunkOverlap]
    /\ app_settings = None
    /\ split_attempt = None

Init ==
    /\ chat_service = None
    /\ init_lock = None
    /\ pc = [p \in Requests |-> "check"]
    /\ message \in [Requests -> RequestQueries]
    /\ service = [p \in Requests |-> None]
    /\ result = [p \in Requests |-> None]
    /\ reply = [p \in Requests |-> None]
    /\ probe = [p \in Requests |-> None]
    /\ constructions = 0
    /\ index_builds = 0
    /\ kind = [p \in Requests |-> "chat"]
    /\ steps = [p \in Requests |-> <<>>]
    /\ initialized_by = None
    /\ knowledge = NoKnowledge
    /\ added = [p \in Requests |-> None]
    /\ query = <<>>
    /\ agent_name = "none"
    /\ advice = None
    /\ RagIdle
    /\ CfgIdle

\* get_chat_service, lines 19 and 29: the instance exists and is returned,
\* or the request goes for the lock.
Check(p) ==
    /\ pc[p] = "check"
    /\ awaits_get_chat_service(kind[p])
    /\ IF FirstCheck(chat_service)
       THEN /\ pc' = [pc EXCEPT ![p] = "acquire"]
            /\ UNCHANGED service
       ELSE /\ pc' = [pc EXCEPT ![p] = "handle"]
            /\ service' = [service EXCEPT ![p] = chat_service]
    /\ UNCHANGED <<chat_service, init_lock, message, result, reply, probe,
                   constructions, index_builds, kind, steps, initialized_by>>
    /\ UNCHANGED <<knowledge, added>>
    /\ UNCHANGED <<pureVars, ragVars, cfgVars>>

\* get_chat_service, line 20: `async with _init_lock` waits for the lock.
Acquire(p) ==
    /\ pc[p] = "acquire"
    /\ init_lock = None
    /\ init_lock' = Some(p)
    /\ pc' = [pc EXCEPT ![p] = "locked"]
    /\ UNCHANGED <<chat_service, message, service, result, reply, probe,
                   constructions, index_builds, kind, steps, initialized_by>>
    /\ UNCHANGED <<knowledge, added>>
    /\ UNCHANGED <<pureVars, ragVars, cfgVars>>

\* get_chat_service, lines 21-28: under the lock, construct the service
\* unless another request has.  ChatService() returns in every case, so
\* the `except` of line 26 is not taken.
Construct(p) ==
    /\ pc[p] = "locked"
    /\ IF SecondCheck(chat_service)
       THEN \E env \in InitEnvs :
            /\ chat_service' = Some(ChatService_init(env, constructions + 1))
            /\ constructions' = constructions + 1
            /\ index_builds' =
                   index_builds + (IF BuildsIndex(env) THEN 1 ELSE 0)
            /\ initialized_by' = Some(kind[p])
       ELSE UNCHANGED <<chat_service, constructions, index_builds,
                        initialized_by>>
    /\ pc' = [pc EXCEPT ![p] = "release"]
    /\ UNCHANGED <<init_lock, message, service, result, reply, probe,
                   kind, steps>>
    /\ UNCHANGED <<knowledge, added>>
    /\ UNCHANGED <<pureVars, ragVars, cfgVars>>

\* get_chat_service, lines 20 and 29: leave the `async with` block and
\* return the global.
Release(p) ==
    /\ pc[p] = "release"
    /\ init_lock' = init_lock_released(init_lock)
    /\ service' = [service EXCEPT ![p] = chat_service]
    /\ pc' = [pc EXCEPT ![p] = "handle"]
    /\ UNCHANGED <<chat_service, message, result, reply, probe,
                   constructions, index_builds, kind, steps, initialized_by>>
    /\ UNCHANGED <<knowledge, added>>
    /\ UNCHANGED <<pureVars, ragVars, cfgVars>>

\* chat, lines 61-87: the rest of the endpoint runs without an await.
Handle(p) ==
    /\ pc[p] = "handle"
    /\ kind[p] = "chat"
    /\ \E in \in BackendInputs(service[p], message[p]) :
        LET out == chat(service[p], message[p], in)
        IN  /\ result' = [result EXCEPT ![p] = out.result]
            /\ reply' = [reply EXCEPT ![p] = Some(out.reply)]
            /\ probe' = [probe EXCEPT ![p] = Some(in)]
            /\ steps' = [steps EXCEPT ![p] = out.steps]
    /\ pc' = [pc EXCEPT ![p] = "done"]
    /\ UNCHANGED <<chat_service, init_lock, message, service,
                   constructions, index_builds, kind, initialized_by>>
    /\ UNCHANGED <<knowledge, added>>
    /\ UNCHANGED <<pureVars, ragVars, cfgVars>>

Next ==
    \E p \in Requests :
        \/ Check(p)
        \/ Acquire(p)
        \/ Construct(p)
        \/ Release(p)
        \/ Handle(p)

Spec == Init /\ [][Next]_vars

(***************************************************************************)
(* One client calling the endpoints one after the other                    *)
(***************************************************************************)
Kinds == {"chat", "comprehensive", "health", "upload", "starters", "status"}

\* The add_knowledge calls the client makes.
MaxUploads == 2
Callers == {1}

EmptyMessage == <<>>

\* The bodies a request of a kind can carry; only the two chat endpoints
\* take a message.
MessagesOf(k) ==
    IF k \notin {"chat", "comprehensive"} THEN {EmptyMessage}
    ELSE RequestQueries \cup {EmptyMessage}

ApiInit ==
    /\ chat_service = None
    /\ init_lock = None
    /\ pc = [p \in Requests |-> "check"]
    /\ \E k \in Kinds : \E m \in MessagesOf(k) :
        /\ kind = [p \in Requests |-> IF p \in Callers THEN k ELSE "chat"]
        /\ message = [p \in Requests |->
                         IF p \in Callers THEN m ELSE BlankMessage]
    /\ service = [p \in Requests |-> None]
    /\ result = [p \in Requests |-> None]
    /\ reply = [p \in Requests |-> None]
    /\ probe = [p \in Requests |-> None]
    /\ steps = [p \in Requests |-> <<>>]
    /\ constructions = 0
    /\ index_builds = 0
    /\ initialized_by = None
    /\ knowledge = NoKnowledge
    /\ added = [p \in Requests |-> None]
    /\ PureIdle
    /\ RagIdle
    /\ CfgIdle

\* comprehensive_chat, lines 103-124: the rest of the endpoint runs without
\* an await.
HandleComprehensive(p) ==
    /\ pc[p] = "handle"
    /\ kind[p] = "comprehensive"
    /\ \E in \in BackendInputs(service[p], message[p]) :
        LET out == comprehensive_chat(service[p], message[p], in)
        IN  /\ result' = [result EXCEPT ![p] = out.result]
            /\ reply' = [reply EXCEPT ![p] = Some(out.reply)]
            /\ probe' = [probe EXCEPT ![p] = Some(in)]
            /\ steps' = [steps EXCEPT ![p] = out.steps]
    /\ pc' = [pc EXCEPT ![p] = "done"]
    /\ UNCHANGED <<chat_service, init_lock, message, service,
                   constructions, index_builds, kind, initialized_by>>
    /\ UNCHANGED <<knowledge, added>>
    /\ UNCHANGED <<pureVars, ragVars, cfgVars>>

\* health_check, lines 37-48: the rest of the endpoint.
HandleHealth(p) ==
    /\ pc[p] = "handle"
    /\ kind[p] = "health"
    /\ reply' = [reply EXCEPT ![p] =
                    Some([ code |-> 200,
                           body |-> health_check_endpoint(service[p]) ])]
    /\ probe' = [probe EXCEPT ![p] = Some(Unused)]
    /\ steps' = [steps EXCEPT ![p] =
                    IF service[p] = None \/ ~service[p][1].initialized
                    THEN <<>>
                    ELSE health_check_steps(service[p][1])]
    /\ pc' = [pc EXCEPT ![p] = "done"]
    /\ UNCHANGED <<chat_service, init_lock, message, service, result,
                   constructions, index_builds, kind, initialized_by>>
    /\ UNCHANGED <<knowledge, added>>
    /\ UNCHANGED <<pureVars, ragVars, cfgVars>>

\* get_conversation_starters, line 200, and get_system_status, line 265:
\* `service = chat_service`, the global as it is.
ReadGlobal(p) ==
    /\ pc[p] = "check"
    /\ ~awaits_get_chat_service(kind[p])
    /\ service' = [service EXCEPT ![p] = chat_service]
    /\ pc' = [pc EXCEPT ![p] = "handle"]
    /\ UNCHANGED <<chat_service, init_lock, message, result, reply, probe,
                   constructions, index_builds, kind, steps, initialized_by>>
    /\ UNCHANGED <<knowledge, added>>
    /\ UNCHANGED <<pureVars, ragVars, cfgVars>>

\* get_conversation_starters, lines 201-214: the rest of the endpoint.
HandleStarters(p) ==
    /\ pc[p] = "handle"
    /\ kind[p] = "starters"
    /\ reply' = [reply EXCEPT ![p] =
                    Some([ code |-> 200,
                           body |-> get_conversation_starters_endpoint(
                                        service[p]) ])]
    /\ probe' = [probe EXCEPT ![p] = Some(Unused)]
    /\ pc' = [pc EXCEPT ![p] = "done"]
    /\ UNCHANGED <<chat_service, init_lock, message, service, result,
                   constructions, index_builds, kind, steps, initialized_by>>
    /\ UNCHANGED <<knowledge, added>>
    /\ UNCHANGED <<pureVars, ragVars, cfgVars>>

\* get_system_status, lines 266-272: the rest of the endpoint; the count of
\* the indexed documents succeeds or fails.
HandleStatus(p) ==
    /\ pc[p] = "handle"
    /\ kind[p] = "status"
    /\ \E count_ok \in BOOLEAN :
        reply' = [reply EXCEPT ![p] =
                     Some([ code |-> 200,
                            body |-> get_system_status_endpoint(
                                         service[p], count_ok) ])]
    /\ probe' = [probe EXCEPT ![p] = Some(Unused)]
    /\ pc' = [pc EXCEPT ![p] = "done"]
    /\ UNCHANGED <<chat_service, init_lock, message, service, result,
                   constructions, index_builds, kind, steps, initialized_by>>
    /\ UNCHANGED <<knowledge, added>>
    /\ UNCHANGED <<pureVars, ragVars, cfgVars>>

\* upload_document, lines 144-182: the rest of the endpoint.  The chunks
\* add_document adds go to the one RAGService instance, which the global
\* and every request's `service` refer to.
HandleUpload(p) ==
    /\ pc[p] = "handle"
    /\ kind[p] = "upload"
    /\ \E file \in Uploads : \E outcome \in UploadOutcomes(service[p], file) :
        LET out == upload_document(service[p], file, outcome)
            files == IF file.filename = None THEN {} ELSE {file.filename[1]}
        IN  /\ reply' = [reply EXCEPT ![p] = Some(out.reply)]
            /\ added' = [added EXCEPT ![p] = out.added]
            /\ probe' = [probe EXCEPT ![p] =
                            Some([file |-> file, outcome |-> outcome])]
            /\ steps' = [steps EXCEPT ![p] = out.steps]
            /\ knowledge' =
                   [ calls   |-> knowledge.calls
                                   + (IF out.added # None THEN 1 ELSE 0),
                     written |-> knowledge.written
                                   \cup (IF out.wrote THEN files ELSE {}),
                     indexed |-> knowledge.indexed
                                   \cup (IF out.chunks > 0 THEN files ELSE {}) ]
            /\ chat_service' =
                   IF out.chunks > 0
                   THEN Some(Indexed(chat_service[1], out.chunks))
                   ELSE chat_service
            /\ service' =
                   [q \in Requests |->
                       IF service[q] = None THEN None ELSE chat_service']
    /\ pc' = [pc EXCEPT ![p] = "done"]
    /\ UNCHANGED <<init_lock, message, result, constructions, index_builds,
                   kind, initialized_by>>
    /\ UNCHANGED <<pureVars, ragVars, cfgVars>>

\* The client's next request; it stops uploading after MaxUploads
\* add_knowledge calls.
Call(p) ==
    /\ pc[p] = "done"
    /\ \E k \in Kinds : \E m \in MessagesOf(k) :
        /\ k = "upload" => knowledge.calls < MaxUploads
        /\ kind' = [kind EXCEPT ![p] = k]
        /\ message' = [message EXCEPT ![p] = m]
    /\ pc' = [pc EXCEPT ![p] = "check"]
    /\ service' = [service EXCEPT ![p] = None]
    /\ result' = [result EXCEPT ![p] = None]
    /\ reply' = [reply EXCEPT ![p] = None]
    /\ probe' = [probe EXCEPT ![p] = None]
    /\ steps' = [steps EXCEPT ![p] = <<>>]
    /\ added' = [added EXCEPT ![p] = None]
    /\ UNCHANGED <<chat_service, init_lock, constructions, index_builds,
                   initialized_by, knowledge>>
    /\ UNCHANGED <<pureVars, ragVars, cfgVars>>

ApiNext ==
    \E p \in Callers :
        \/ Check(p)
        \/ Acquire(p)
        \/ Construct(p)
        \/ Release(p)
        \/ Handle(p)
        \/ HandleComprehensive(p)
        \/ HandleHealth(p)
        \/ ReadGlobal(p)
        \/ HandleStarters(p)
        \/ HandleStatus(p)
        \/ HandleUpload(p)
        \/ Call(p)

ApiSpec == ApiInit /\ [][ApiNext]_vars

(***************************************************************************)
(* The router and the advice generator as pure functions of the query      *)
(***************************************************************************)
\* rag_context as get_career_advice can be given it, and what the retriever
\* returns when it is not given.
AdviceContexts == {None, Some(<<>>), Some(<<1>>)}
Searched(rag_context) == IF rag_context = None THEN {<<>>, <<1>>} ELSE {<<>>}

PureInit ==
    /\ chat_service = None
    /\ init_lock = None
    /\ pc = [p \in Requests |-> "check"]
    /\ message = [p \in Requests |-> BlankMessage]
    /\ service = [p \in Requests |-> None]
    /\ result = [p \in Requests |-> None]
    /\ reply = [p \in Requests |-> None]
    /\ probe = [p \in Requests |-> None]
    /\ constructions = 0
    /\ index_builds = 0
    /\ kind = [p \in Requests |-> "chat"]
    /\ steps = [p \in Requests |-> <<>>]
    /\ initialized_by = None
    /\ knowledge = NoKnowledge
    /\ added = [p \in Requests |-> None]
    /\ query \in Queries
    /\ agent_name = "none"
    /\ advice = None
    /\ RagIdle
    /\ CfgIdle

\* selected_agent, agent_name = self.determine_agent(user_query)
Classify ==
    /\ agent_name = "none"
    /\ agent_name' = AgentNameOf[query]
    /\ UNCHANGED <<query, advice>>
    /\ UNCHANGED <<orchVars, ragVars, cfgVars>>

\* self.crew_service.get_career_advice(message, rag_context)
Advise ==
    /\ advice = None
    /\ \E rag_context \in AdviceContexts, gen \in GenOutcomes :
        \E searched \in Searched(rag_context) :
            advice' = Some([ returned    |-> get_career_advice(query,
                                                 rag_context, searched, gen),
                             gen         |-> gen,
                             rag_context |-> rag_context,
                             searched    |-> searched ])
    /\ UNCHANGED <<query, agent_name>>
    /\ UNCHANGED <<orchVars, ragVars, cfgVars>>

PureNext == Classify \/ Advise

PureSpec == PureInit /\ [][PureNext]_vars

(***************************************************************************)
(* The retriever as a pure function of the index and of what it answers    *)
(***************************************************************************)
RetrieverInit ==
    /\ OrchIdle
    /\ PureIdle
    /\ store \in {None} \cup {VectorStore(n) : n \in 1..MaxStoreChunks}
    /\ store_api \in StoreApis
    /\ found = None
    /\ IndexIdle
    /\ CfgIdle

\* self.rag_service.search_with_scores(message, k=4, score_threshold=0.6)
Retrieve ==
    /\ found = None
    /\ \E outcome \in StoreOutcomes(store, store_api) :
        found' = Some([ outcome  |-> outcome,
                        returned |-> search_with_scores(store, store_api,
                                         SearchK, ScoreThreshold, outcome) ])
    /\ UNCHANGED <<store, store_api, environment, documents_dir, loaded,
                   built>>
    /\ UNCHANGED <<orchVars, pureVars, cfgVars>>

RetrieverNext == Retrieve

RetrieverSpec == RetrieverInit /\ [][RetrieverNext]_vars

(***************************************************************************)
(* The index set-up as a function of what the constructors meet            *)
(***************************************************************************)
IndexInit ==
    /\ OrchIdle
    /\ PureIdle
    /\ RetrieverIdle
    /\ CfgIdle
    /\ environment \in Envs(Directories)
    /\ documents_dir = environment.directory
    /\ loaded = None
    /\ built = None

\* self.load_documents_from_directory(settings.DOCUMENTS_PATH)
LoadDirectory ==
    /\ loaded = None
    /\ loaded' = Some([ directory |-> documents_dir,
                        documents |->
                            load_documents_from_directory(documents_dir) ])
    /\ UNCHANGED <<environment, documents_dir, built, store, store_api,
                   found>>
    /\ UNCHANGED <<orchVars, pureVars, cfgVars>>

\* ChatService(): RAGService() sets up the index, seeding the directory
\* when load_documents finds nothing to load, then CrewService().
ConstructServices ==
    /\ built = None
    /\ built' = Some([ chat_service |-> ChatService_init(environment, 1),
                       rag_service  |->
                           IF RAGService_raises(environment) THEN None
                           ELSE Some(RAGService_init(environment)) ])
    /\ documents_dir' =
           IF RAGService_raises(environment) \/ LoadsFromDisk(environment)
           THEN documents_dir
           ELSE seeded_directory(environment)
    /\ UNCHANGED <<environment, loaded, store, store_api, found>>
    /\ UNCHANGED <<orchVars, pureVars, cfgVars>>

IndexNext == LoadDirectory \/ ConstructServices

IndexSpec == IndexInit /\ [][IndexNext]_vars

(***************************************************************************)
(* The chunking configuration (ConfigSpec): config.py makes the settings   *)
(* from the environment, and load_documents and add_document each make a   *)
(* text splitter from them and split with it.                              *)
(***************************************************************************)
\* The values the environment or the .env file can give the two fields.
ChunkEnvs == [CHUNK_SIZE : 1..MaxChunkSize, CHUNK_OVERLAP : 0..MaxChunkSize]

\* config.Settings(): both fields are declared int and nothing relates one
\* to the other, so every pair of integers is accepted as it is given.
Settings(values) ==
    Some([CHUNK_SIZE |-> values.CHUNK_SIZE,
          CHUNK_OVERLAP |-> values.CHUNK_OVERLAP])

\* RecursiveCharacterTextSplitter(chunk_size, chunk_overlap) followed by
\* split_documents: the library splits when the overlap is smaller than
\* the chunk; otherwise what it does is the library's choice: it raises or
\* it returns chunks.
text_splitter(chunk_size, chunk_overlap) ==
    IF chunk_overlap < chunk_size THEN {"split"} ELSE {"split", "raise"}

\* What a caller leaves behind once it has made the splitter and used it.
SplitAttempt(caller, cfg, outcome) ==
    Some([by |-> caller, chunk_size |-> cfg.CHUNK_SIZE,
          chunk_overlap |-> cfg.CHUNK_OVERLAP, outcome |-> outcome])

ConfigInit ==
    /\ OrchIdle
    /\ PureIdle
    /\ RagIdle
    /\ chunk_env \in ChunkEnvs
    /\ app_settings = None
    /\ split_attempt = None

\* config.py: settings = Settings(), when the module is imported.
LoadSettings ==
    /\ app_settings = None
    /\ app_settings' = Settings(chunk_env)
    /\ UNCHANGED <<chunk_env, split_attempt>>
    /\ UNCHANGED <<orchVars, pureVars, ragVars>>

\* load_documents: the splitter made from the settings splits the loaded
\* documents.
SplitLoadedDocuments ==
    /\ app_settings # None
    /\ split_attempt = None
    /\ \E outcome \in text_splitter(app_settings[1].CHUNK_SIZE,
                                     app_settings[1].CHUNK_OVERLAP) :
            split_attempt' =
                SplitAttempt("load_documents", app_settings[1], outcome)
    /\ UNCHANGED <<chunk_env, app_settings>>
    /\ UNCHANGED <<orchVars, pureVars, ragVars>>

\* add_document: the splitter made from the settings splits the new document.
SplitAddedDocument ==
    /\ app_settings # None
    /\ split_attempt = None
    /\ \E outcome \in text_splitter(app_settings[1].CHUNK_SIZE,
                                     app_settings[1].CHUNK_OVERLAP) :
            split_attempt' =
                SplitAttempt("add_document", app_settings[1], outcome)
    /\ UNCHANGED <<chunk_env, app_settings>>
    /\ UNCHANGED <<orchVars, pureVars, ragVars>>

ConfigNext == LoadSettings \/ SplitLoadedDocuments \/ SplitAddedDocument

ConfigSpec == ConfigInit /\ [][ConfigNext]_vars

(***************************************************************************)
(* Properties of the orchestrator (Spec)                                   *)
(***************************************************************************)
Returned(p) == pc[p] \in {"handle", "done"}
Failed == chat_service # None /\ ~chat_service[1].initialized
Ready == chat_service # None /\ chat_service[1].initialized

\* process_message was called for request p and returned a dict.
Answered(p) == result[p] # None
Answer(p) == result[p][1]
ContextUsed(p) == Get(Answer(p), "context_used", FALSE)

\* C1: however the first calls of get_chat_service interleave, ChatService
\* (and with it the vector index) is constructed at most once, exactly once
\* as soon as a caller has its instance, and every caller gets that one
\* instance.
C1_SingleFlight ==
    /\ constructions <= 1
    /\ index_builds <= 1
    /\ \A p \in Requests :
        Returned(p) =>
            /\ constructions = 1
            /\ service[p] # None
            /\ service[p] = chat_service
    /\ \A p \in Requests : \A q \in Requests :
        Returned(p) /\ Returned(q) => service[p] = service[q]

\* A request has its instance while another one, which also found the
\* global empty, is still on its way to the lock.
C1_Witness ==
    \E p \in Requests : \E q \in Requests :
        /\ p # q
        /\ Returned(p)
        /\ service[p] # None
        /\ pc[q] = "acquire"
        /\ constructions = 1

\* C2: once the construction has failed, no step constructs again or
\* changes the instance, and every process_message call that returns then
\* returns status "error".
C2_FailedIsAbsorbing ==
    [][ Failed =>
          /\ chat_service' = chat_service
          /\ constructions' = constructions
          /\ index_builds' = index_builds
          /\ \A p \in Requests :
                (result'[p] # result[p]) =>
                    /\ result'[p][1].status = "error"
                    /\ reply'[p][1].body.status = "error" ]_vars

\* After a failed construction two requests have been answered, both with
\* status "error", and there was one construction.
C2_Witness ==
    /\ Failed
    /\ constructions = 1
    /\ \E p \in Requests : \E q \in Requests :
        /\ p # q
        /\ Answered(p) /\ Answer(p).status = "error"
        /\ Answered(q) /\ Answer(q).status = "error"

\* A retrieved snippet reached the threshold (and so was put in the prompt).
PassedThreshold(p) ==
    /\ probe[p][1].outcome.scored = "ok"
    /\ \E i \in DOMAIN probe[p][1].outcome.results :
           probe[p][1].outcome.results[i].score >= ScoreThreshold

\* C3: in every Answer, context_used is true exactly when a retrieved
\* snippet scored at least the threshold and was put in the prompt; the
\* top-2 fallback of the retriever does not make it true.
C3_ContextUsedIffThresholdMet ==
    \A p \in Requests :
        Answered(p) => (ContextUsed(p) <=> PassedThreshold(p))

\* C4: in every Answer, of every state of the orchestrator, context_used
\* true goes with non-empty sources and context_used false or absent with
\* empty sources.
C4_ContextUsedMatchesSources ==
    \A p \in Requests :
        Answered(p) =>
            /\ ContextUsed(p) => Answer(p).sources # <<>>
            /\ ~ContextUsed(p) => Answer(p).sources = <<>>
            /\ reply[p][1].body.context_used <=>
                   (reply[p][1].body.sources # <<>>)

\* One Answer with context and its provenance note, another from the
\* exception path with neither.
C4_Witness ==
    \E p \in Requests : \E q \in Requests :
        /\ Answered(p) /\ ContextUsed(p) /\ Answer(p).sources # <<>>
        /\ Answered(q) /\ Answer(q).agent_used = "Error Handler"
        /\ ~ContextUsed(q) /\ Answer(q).sources = <<>>

\* C5: a request with a non-blank query that got its instance ends with an
\* Answer whose status is success, fallback or error and whose response
\* text is not empty, whatever the backends did.
C5_WellFormedAnswer ==
    \A p \in Requests :
        (pc[p] = "done" /\ service[p] # None /\ ~IsBlank(message[p])) =>
            /\ Answered(p)
            /\ Answer(p).status \in {"success", "fallback", "error"}
            /\ Answer(p).response # ""
            /\ reply[p][1].code = 200
            /\ reply[p][1].body.response # ""

\* C7: when the generation raised, the Answer of process_message has
\* context_used false, whatever the retriever returned.
C7_FallbackHasNoContext ==
    \A p \in Requests :
        (Answered(p) /\ probe[p][1].gen = "raise") => ~ContextUsed(p)

(***************************************************************************)
(* Properties of the router and the advice generator (PureSpec)            *)
(***************************************************************************)
Personas ==
    { "Career Analyst", "Resume Expert", "Interview Coach", "Skill Advisor",
      "Networking Specialist" }

\* The trigger keywords of a persona.
TriggerKeywords(persona) ==
    LET list == CASE persona = "Resume Expert" -> resume_keywords
                  [] persona = "Interview Coach" -> interview_keywords
                  [] persona = "Skill Advisor" -> skill_keywords
                  [] persona = "Career Analyst" -> market_keywords
                  [] persona = "Networking Specialist" -> networking_keywords
    IN  {list[i] : i \in DOMAIN list}

\* The number of distinct trigger keywords of the persona that occur as
\* substrings of the lowercased query.
PersonaScore(persona, text) ==
    LET lowered == Lower(text)
    IN  Cardinality({k \in TriggerKeywords(persona) : Contains(lowered, k)})

Classified == agent_name # "none"

\* The canned block of the first rule that matches, in the fixed order
\* resume, interview, negotiation, else the capability list.
FallbackRules ==
    << [keywords |-> fallback_resume_keywords, block |-> ResumeTips],
       [keywords |-> fallback_interview_keywords, block |-> InterviewTips],
       [keywords |-> fallback_salary_keywords, block |-> NegotiationTips] >>

FirstMatchingBlock(text) ==
    LET lowered == Lower(text)
        hits == {i \in DOMAIN FallbackRules :
                    ContainsAny(lowered, FallbackRules[i].keywords)}
    IN  IF hits = {} THEN CapabilityList
        ELSE FallbackRules[CHOOSE i \in hits : \A j \in hits : i <= j].block

\* C6: when the generation raises, get_career_advice returns status
\* "fallback", agent_used "System Fallback" and the canned block of the
\* first rule, in the fixed order, that matches the lowercased query.
C6_FallbackOnGenerationFailure ==
    (advice # None /\ advice[1].gen = "raise") =>
        /\ advice[1].returned.status = "fallback"
        /\ advice[1].returned.agent_used = "System Fallback"
        /\ advice[1].returned.response = FirstMatchingBlock(query)

\* The generation raised for a query that has a resume keyword and an
\* interview keyword, and the resume tips were returned.
C6_Witness ==
    /\ advice # None
    /\ advice[1].gen = "raise"
    /\ ContainsAny(Lower(query), fallback_resume_keywords)
    /\ ContainsAny(Lower(query), fallback_interview_keywords)
    /\ advice[1].returned.response = ResumeTips

\* C8: when two or more personas share the greatest score and it is above
\* zero, the router returns Career Analyst.
C8_TieGoesToCareerAnalyst ==
    Classified =>
        LET score == [a \in Personas |-> PersonaScore(a, query)]
            top == CHOOSE m \in {score[a] : a \in Personas} :
                       \A a \in Personas : score[a] <= m
        IN  (top > 0 /\ Cardinality({a \in Personas : score[a] = top}) >= 2)
                => agent_name = "Career Analyst"

\* C9: when one persona has a score above zero that is strictly greater
\* than every other persona's, the router returns that persona.
C9_UniqueMaximumWins ==
    Classified =>
        LET score == [a \in Personas |-> PersonaScore(a, query)]
        IN  \A a \in Personas :
                (/\ score[a] > 0
                 /\ \A b \in Personas \ {a} : score[b] < score[a])
                    => agent_name = a

\* The query about resume, cover letter and ATS matches four keywords of
\* the Resume Expert and is routed to it.
C9_Witness ==
    /\ query = OptimizeQuery
    /\ PersonaScore("Resume Expert", query) = 4
    /\ \A b \in Personas \ {"Resume Expert"} : PersonaScore(b, query) = 0
    /\ agent_name = "Resume Expert"

\* C10: a query with no trigger keyword of any persona is routed to Career
\* Analyst.
C10_ZeroMatchDefault ==
    (Classified /\ \A a \in Personas : PersonaScore(a, query) = 0)
        => agent_name = "Career Analyst"

\* The weather question matches nothing and is routed to Career Analyst.
C10_Witness ==
    /\ query = WeatherQuery
    /\ \A a \in Personas : PersonaScore(a, query) = 0
    /\ agent_name = "Career Analyst"

(***************************************************************************)
(* Properties of the retriever (RetrieverSpec)                             *)
(***************************************************************************)
\* A scored search was made and returned results.
Scored == found # None /\ found[1].outcome.scored = "ok"
Results == found[1].outcome.results

\* The score of a result on the higher-is-better scale: a relevance as it
\* is, a distance d as 1.0 - d.
NormalizedScore(r) == IF store_api = "distance" THEN 10 - r.score ELSE r.score
ReachesThreshold(r) == NormalizedScore(r) >= ScoreThreshold

\* C11 as claimed: when the relevance search of a non-empty index returns
\* no result that reaches the threshold, search_with_scores returns exactly
\* the two top-ranked results, in rank order.
C11_FallbackReturnsTwo ==
    (/\ Scored
     /\ store_api = "relevance"
     /\ \A i \in DOMAIN Results : ~ReachesThreshold(Results[i]))
        => found[1].returned = <<1, 2>>

\* C11, amended: when the relevance search of a non-empty index returns no
\* result that reaches the threshold, search_with_scores returns the
\* top-ranked results in rank order, two of them or all the index has if
\* that is fewer, and never the empty list.
C11_FallbackReturnsTopRanked ==
    (/\ Scored
     /\ store_api = "relevance"
     /\ \A i \in DOMAIN Results : ~ReachesThreshold(Results[i]))
        => /\ found[1].returned # <<>>
           /\ found[1].returned =
                  [i \in 1..(IF store[1].chunks >= 2 THEN 2
                             ELSE store[1].chunks) |-> i]

C11_Witness ==
    /\ Scored
    /\ store_api = "relevance"
    /\ store[1].chunks > 2
    /\ \A i \in DOMAIN Results : ~ReachesThreshold(Results[i])
    /\ found[1].returned = <<1, 2>>

\* C12: with either score convention, when some result of the scored search
\* reaches the threshold on the higher-is-better scale, every snippet
\* search_with_scores returns belongs to a result that reaches it.
C12_OnlySnippetsAtThreshold ==
    (/\ Scored
     /\ store_api \in {"relevance", "distance"}
     /\ \E i \in DOMAIN Results : ReachesThreshold(Results[i]))
        => \A j \in DOMAIN found[1].returned :
               ReachesThreshold(Results[found[1].returned[j]])

\* C13: when the scored search raises, or the index is absent,
\* search_with_scores returns the empty list.
C13_ErrorGivesEmptyList ==
    (/\ found # None
     /\ store = None \/ found[1].outcome.scored = "raise")
        => found[1].returned = <<>>

(***************************************************************************)
(* Properties of the endpoints (ApiSpec)                                   *)
(***************************************************************************)
Kickoffs(p) ==
    Cardinality({i \in DOMAIN steps[p] : steps[p][i] = "kickoff"})

\* C14: a chat or comprehensive-chat request causes at most one
\* crew.kickoff(), also when the generation fails, and none at all when the
\* service it was given failed to initialize.
C14_AtMostOneGeneration ==
    \A p \in Requests :
        /\ Kickoffs(p) <= 1
        /\ (pc[p] = "done" /\ service[p] # None /\ ~service[p][1].initialized)
               => Kickoffs(p) = 0

\* A comprehensive-chat request whose generation failed: one kickoff.
C14_Witness ==
    \E p \in Requests :
        /\ pc[p] = "done"
        /\ kind[p] = "comprehensive"
        /\ probe[p][1].gen = "raise"
        /\ Answer(p).status = "fallback"
        /\ Kickoffs(p) = 1

\* A step of a health-check request: get_chat_service or the endpoint body.
HealthStep ==
    \E p \in Requests :
        kind[p] = "health" /\ pc[p] # "done" /\ pc'[p] # pc[p]

\* What a health check is to leave alone: the service instance (with its
\* index), the constructions and index set-ups made so far (an index
\* set-up is what seeds the documents directory), and the pipeline steps.
HealthLeavesAlone ==
    UNCHANGED <<chat_service, constructions, index_builds, initialized_by,
                steps, knowledge>>

\* C15 as claimed: no step of a health-check request, in any state of the
\* orchestrator, changes the service, the index or the document store or
\* runs a generation.
C15_HealthCheckIsSideEffectFree == [][HealthStep => HealthLeavesAlone]_vars

\* C15, amended: once the service has been constructed (Ready or Failed),
\* no step of a health-check request changes the service, the index or the
\* document store, and a health-check request never runs a pipeline step.
C15_HealthCheckAfterConstruction ==
    [][(HealthStep /\ chat_service # None) => HealthLeavesAlone]_vars

\* A health check answered "healthy" by a service that a chat request built.
C15_Witness ==
    \E p \in Requests :
        /\ kind[p] = "health"
        /\ pc[p] = "done"
        /\ initialized_by # None
        /\ initialized_by # Some("health")
        /\ reply[p][1].body.status = "healthy"
        /\ steps[p] = <<>>

\* A chat or comprehensive-chat request, answered, whose message is empty or
\* holds white space only.
BlankRequest(p) ==
    /\ pc[p] = "done"
    /\ kind[p] \in {"chat", "comprehensive"}
    /\ \A i \in DOMAIN message[p] : message[p][i] \in WhiteSpace

\* C16: a chat or comprehensive-chat request with an empty or white-space
\* message is answered 400; process_message is not called for it and no
\* retrieval, classification or generation step runs.
C16_BlankMessageIsRejected ==
    \A p \in Requests :
        BlankRequest(p) =>
            /\ reply[p][1].code = 400
            /\ result[p] = None
            /\ steps[p] = <<>>
            /\ probe[p] = Some(Unused)

\* A white-space message rejected by a comprehensive-chat request that was
\* given a Ready service.
C16_Witness ==
    \E p \in Requests :
        /\ BlankRequest(p)
        /\ kind[p] = "comprehensive"
        /\ message[p] # <<>>
        /\ service[p][1].initialized
        /\ reply[p][1].code = 400

(***************************************************************************)
(* Properties of the index set-up (IndexSpec)                              *)
(***************************************************************************)
\* C17: whatever the embedding backend does while the index is set up, the
\* failure of both embedding clients included, ChatService() ends
\* initialized when the generation side is constructed.
C17_EmbeddingErrorsAreContained ==
    (built # None /\ environment.crew_ok)
        => built[1].chat_service.initialized

\* RAGService() returned: the index set-up has run to its end.
IndexSetUp == built # None /\ built[1].rag_service # None
Index == built[1].rag_service[1].vector_store

\* C18: when the embedding backend fails while the index is built from the
\* documents, RAGService() ends with an index of exactly one chunk, the
\* placeholder.
C18_PlaceholderAfterEmbeddingFailure ==
    (IndexSetUp /\ ~environment.build_ok) => Index = VectorStore(1)

\* The text files of a directory that one of the two ways of reading loads.
Readable(dir) ==
    {f \in DOMAIN dir : f.ext = "txt" /\ dir[f] # "unreadable"}

\* C19: load_documents_from_directory returns the documents of exactly the
\* text files that can be read, whichever files of the directory fail.
C19_LoaderPartialSuccess ==
    loaded # None =>
        {d.source : d \in loaded[1].documents} = Readable(loaded[1].directory)

\* A directory with an unreadable text file and two that load, one of them
\* by the manual read.
C19_Witness ==
    /\ loaded # None
    /\ \E f \in DOMAIN loaded[1].directory :
           f.ext = "txt" /\ loaded[1].directory[f] = "unreadable"
    /\ \E f \in DOMAIN loaded[1].directory :
           loaded[1].directory[f] = "manual"
    /\ Cardinality(loaded[1].documents) = 2

\* A new index is built and the directory RAGService() finds is empty or
\* holds no text file that can be read.
FirstRun ==
    /\ IndexSetUp
    /\ ~LoadsFromDisk(environment)
    /\ Readable(environment.directory) = {}

\* The four sample documents are in the directory, readable, and when the
\* embedding backend takes the build the index is the one built from the
\* loaded samples, with a chunk or more for each.
Seeded ==
    /\ \A f \in SampleFiles :
           f \in DOMAIN documents_dir /\ documents_dir[f] = "ok"
    /\ environment.build_ok =>
           /\ Index # None
           /\ Index[1].chunks >= SampleCount

C21_OverlapBelowChunkSize ==
    /\ app_settings # None =>
           app_settings[1].CHUNK_OVERLAP < app_settings[1].CHUNK_SIZE
    /\ split_attempt # None =>
           split_attempt[1].chunk_overlap < split_attempt[1].chunk_size

(***************************************************************************)
(* Properties of the comprehensive analysis (ApiSpec)                      *)
(***************************************************************************)
AnswerFields ==
    {"response", "agent_used", "status", "sources", "context_used"}

\* The request's own service, query and backend outcomes.
Inputs(p) == probe[p][1]
ProcessWouldReturn(p) ==
    process_message(service[p][1], message[p], Inputs(p).outcome,
                    Inputs(p).gen, Inputs(p).fault)
ProcessWouldRun(p) ==
    process_message_steps(service[p][1], Inputs(p).outcome,
                          Inputs(p).gen, Inputs(p).fault)

ComprehensiveAnswered(p) ==
    pc[p] = "done" /\ kind[p] = "comprehensive" /\ Answered(p)

\* C22: for every query, orchestrator state and backend outcomes, the dict
\* get_multi_agent_response returns has the response, agent_used, status,
\* sources and context_used that process_message returns for them, and the
\* pipeline steps it ran are those of one process_message call.
C22_MultiAgentRefinesProcess ==
    \A p \in Callers :
        ComprehensiveAnswered(p) =>
            /\ \A f \in AnswerFields :
                   /\ (f \in DOMAIN Answer(p))
                          <=> (f \in DOMAIN ProcessWouldReturn(p))
                   /\ f \in DOMAIN Answer(p) =>
                          Answer(p)[f] = ProcessWouldReturn(p)[f]
            /\ steps[p] = ProcessWouldRun(p)
            /\ Kickoffs(p) <= 1

\* A comprehensive analysis that a Ready orchestrator answered through the
\* generation backend, on the path that marks the answer.
C22_Witness ==
    \E p \in Callers :
        /\ ComprehensiveAnswered(p)
        /\ "collaboration" \in DOMAIN Answer(p)
        /\ Answer(p).status = "success"
        /\ Kickoffs(p) = 1

(***************************************************************************)
(* Properties of the pipeline's degraded paths (ApiSpec)                   *)
(***************************************************************************)
\* Request p ran process_message on a Ready orchestrator and the index's
\* scored search raised.
RetrieverFailed(p) ==
    /\ pc[p] = "done"
    /\ Answered(p)
    /\ service[p][1].initialized
    /\ Inputs(p).outcome.scored = "raise"

\* C23: when the retriever fails in state Ready, the generation still runs,
\* with no context, and the answer has status success or fallback, an empty
\* sources list and context_used false.
C23_RetrieverFailureGivesEmptyContext ==
    \A p \in Callers :
        RetrieverFailed(p) =>
            /\ Kickoffs(p) = 1
            /\ Answer(p).status \in {"success", "fallback"}
            /\ Answer(p).sources = <<>>
            /\ ContextUsed(p) = FALSE

(***************************************************************************)
(* Properties of the initialization lock (Spec)                            *)
(***************************************************************************)
\* Request p is past get_chat_service: in the endpoint's body, where
\* process_message searches the index and calls the generation, or done.
PastInitialization(p) == pc[p] \in {"handle", "done"}

\* C24: the initialization lock is held only by a request that is inside
\* get_chat_service's locked block; a request that is in or past
\* process_message, with its retrieval and generation calls, does not hold
\* it, so the lock is free or held by a request still initializing.
C24_LockHeldOnlyDuringConstruction ==
    \A p \in Requests :
        /\ init_lock = Some(p) => pc[p] \in {"locked", "release"}
        /\ PastInitialization(p) => init_lock # Some(p)

\* One request has constructed the orchestrator and run the whole pipeline
\* while another, that had seen no instance, still waits to take the lock,
\* which is free.
C24_Witness ==
    \E p \in Requests : \E q \in Requests \ {p} :
        /\ pc[p] = "done"
        /\ Kickoffs(p) = 1
        /\ steps[p][1] = "similarity_search_with_relevance_scores"
        /\ pc[q] = "acquire"
        /\ init_lock = None

(***************************************************************************)
(* Properties of the health report (ApiSpec)                               *)
(***************************************************************************)
\* Request p is a health check that was answered from an orchestrator.
HealthReported(p) ==
    pc[p] = "done" /\ kind[p] = "health" /\ service[p] # None
Health(p) == reply[p][1].body
IndexPresent(self) ==
    self.rag_service # None /\ self.rag_service[1].vector_store # None
GeneratorExists(self) == self.crew_service # None
ComponentStatus(present) == IF present THEN "healthy" ELSE "unhealthy"

\* C25: the health report is "unhealthy" exactly when the orchestrator is
\* not initialized; when it is initialized the report is "healthy" exactly
\* when the index is present and the generator service exists and
\* "degraded" otherwise, and carries the status of each of the two.
C25_HealthStatusMapping ==
    \A p \in Callers :
        HealthReported(p) =>
            LET self == service[p][1]
            IN  /\ Health(p).status = "unhealthy" <=> ~self.initialized
                /\ self.initialized =>
                       /\ Health(p).status = "healthy" <=>
                              IndexPresent(self) /\ GeneratorExists(self)
                       /\ Health(p).status \in {"healthy", "degraded"}
                       /\ Health(p).services.rag_service =
                              ComponentStatus(IndexPresent(self))
                       /\ Health(p).services.crew_service =
                              ComponentStatus(GeneratorExists(self))

\* A health check of a Ready orchestrator that has no index: degraded, the
\* index unhealthy and the generator healthy.
C25_Witness ==
    \E p \in Callers :
        /\ HealthReported(p)
        /\ service[p][1].initialized
        /\ ~IndexPresent(service[p][1])
        /\ Health(p).status = "degraded"

(***************************************************************************)
(* Properties of the orchestrator's construction (ApiSpec)                 *)
(***************************************************************************)
\* An initialized orchestrator has both services, one that is not has none.
WellConstructed(self) ==
    /\ self.initialized =>
           self.rag_service # None /\ self.crew_service # None
    /\ ~self.initialized =>
           self.rag_service = None /\ self.crew_service = None

\* C26: in every reachable state the orchestrator, and every reference a
\* request holds to it, is initialized with both services or not
\* initialized with neither; no answer comes from the "Fallback Assistant"
\* branch of process_message.
C26_ConstructionInvariant ==
    /\ chat_service # None => WellConstructed(chat_service[1])
    /\ \A p \in Requests :
           /\ service[p] # None => WellConstructed(service[p][1])
           /\ Answered(p) => Answer(p).agent_used # "Fallback Assistant"

\* The orchestrator failed to initialize, holds neither service, and has
\* answered a request.
C26_Witness ==
    /\ Failed
    /\ chat_service[1].rag_service = None
    /\ chat_service[1].crew_service = None
    /\ \E p \in Callers : Answered(p) /\ Answer(p).agent_used = "System Error"

(***************************************************************************)
(* Properties of the answer's status and persona (ApiSpec)                 *)
(***************************************************************************)
\* The generation call of request p returned without error.
GenerationReturned(p) == Inputs(p).gen \in {"text", "empty"}

\* C27: in every answer of process_message the status is "success" exactly
\* when agent_used is one of the five personas and the generation returned
\* without error, "fallback" exactly when agent_used is "System Fallback",
\* and "error" exactly when agent_used is "System Error" or "Error Handler".
C27_StatusAndPersonaAgree ==
    \A p \in Callers :
        (pc[p] = "done" /\ Answered(p)) =>
            /\ Answer(p).status \in {"success", "fallback", "error"}
            /\ Answer(p).status = "success" <=>
                   (Answer(p).agent_used \in Personas /\ GenerationReturned(p))
            /\ Answer(p).status = "fallback" <=>
                   Answer(p).agent_used = "System Fallback"
            /\ Answer(p).status = "error" <=>
                   Answer(p).agent_used \in {"System Error", "Error Handler"}

\* A chat request of a Ready orchestrator whose generation raised: the
\* answer is the rule-based fallback under "System Fallback".
C27_Witness ==
    \E p \in Callers :
        /\ pc[p] = "done"
        /\ kind[p] = "chat"
        /\ Answered(p)
        /\ Inputs(p).gen = "raise"
        /\ Answer(p).status = "fallback"
        /\ Answer(p).agent_used = "System Fallback"

(***************************************************************************)
(* Properties of the uploads (ApiSpec)                                     *)
(***************************************************************************)
\* C28: after any sequence of add_knowledge calls, every file they wrote to
\* the documents directory is a file whose chunks they added to the index;
\* a call that returns status "error" has written nothing.
C28_WrittenOnlyIfIndexed ==
    knowledge.written \subseteq knowledge.indexed

(***************************************************************************)
(* Properties of the endpoints that do not initialize (ApiSpec)            *)
(***************************************************************************)
ReadsGlobalOnly(k) == k \in {"starters", "status"}
ObtainsService(k) == k \in {"health", "chat", "comprehensive", "upload"}

\* C29: the conversation-starters and system-status endpoints never run
\* ChatService(): the orchestrator is only ever constructed by a health,
\* chat, comprehensive-chat or upload request; called while there is no
\* instance they answer with the static starters or with "unavailable" and
\* there is still no instance; a health, chat, comprehensive-chat or upload
\* request that was answered has obtained the instance.
C29_StartersAndStatusDoNotInitialize ==
    /\ initialized_by # None => ObtainsService(initialized_by[1])
    /\ \A p \in Callers :
           /\ (ReadsGlobalOnly(kind[p]) /\ pc[p] # "check"
                  /\ constructions = 0) =>
                  /\ chat_service = None
                  /\ service[p] = None
           /\ (ReadsGlobalOnly(kind[p]) /\ pc[p] = "done"
                  /\ service[p] = None) =>
                  IF kind[p] = "starters"
                  THEN reply[p][1].body = [starters |-> StaticStarters]
                  ELSE reply[p][1].body.status = "unavailable"
           /\ (ObtainsService(kind[p]) /\ pc[p] = "done") =>
                  /\ chat_service # None
                  /\ service[p] = chat_service

\* A system-status request answered "unavailable" while there is no
\* orchestrator, and there is none afterwards.
C29_Witness ==
    \E p \in Callers :
        /\ kind[p] = "status"
        /\ pc[p] = "done"
        /\ reply[p][1].body.status = "unavailable"
        /\ chat_service = None
        /\ constructions = 0

(***************************************************************************)
(* Properties of the Failed orchestrator (ApiSpec)                         *)
(***************************************************************************)
\* The dict the pipeline operation of request p returned.
Returns(p) == IF kind[p] = "upload" THEN added[p][1] ELSE result[p][1]
PipelineCalled(p) ==
    /\ pc[p] = "done"
    /\ IF kind[p] = "upload" THEN added[p] # None ELSE result[p] # None

\* C30: when the orchestrator is Failed, process_message,
\* get_multi_agent_response and add_knowledge return a dict with status
\* "error" and run no pipeline step: no index search, no generation, no
\* file write, no embedding; no file has been written and none indexed.
C30_FailedRejects ==
    Failed =>
        /\ knowledge.written = {}
        /\ knowledge.indexed = {}
        /\ chat_service[1].rag_service = None
        /\ \A p \in Callers :
               PipelineCalled(p) =>
                   /\ Returns(p).status = "error"
                   /\ steps[p] = <<>>

\* An upload of a text file that reached add_knowledge on a Failed
\* orchestrator and was rejected.
C30_Witness ==
    \E p \in Callers :
        /\ Failed
        /\ kind[p] = "upload"
        /\ PipelineCalled(p)
        /\ Returns(p).status = "error"
        /\ reply[p][1].code = 500
        /\ knowledge.calls = 1

====
